---------------------------- MODULE Spec2Model ----------------------------
(***************************************************************************)
(* Model of scripts/md_to_image.py: the inline tokenizer                   *)
(* (_parse_inline_format), the two wrappers (_wrap_text,                   *)
(* _wrap_formatted_text), the height estimator                             *)
(* (_calculate_element_height), the element renderer's vertical advance    *)
(* (_render_element), the paginator (render / _save_page) and the newline  *)
(* preprocessing of MarkdownToImage.convert.                               *)
(*                                                                         *)
(* Text is a sequence of one-character strings.  Text measurement          *)
(* (_get_text_size) is modelled as additive over characters: a character   *)
(* advances by the em of the font it is set in ("W" stands for a           *)
(* full-width glyph, every other character is half an em wide).            *)
(***************************************************************************)
EXTENDS Integers, Sequences, FiniteSets, TLC

VARIABLES
    pc,             \* position of the running operation
    style,          \* StyleConfig fields set from the command line: [width, height]
    elements,       \* render: the input block list
    idx,            \* render: index of the next element of the for loop
    current_y,      \* render: running y of the accumulator page
    page_elements,  \* render: the accumulator page
    page_num,       \* render: number of the next page to save
    output_paths,   \* render: the pages saved so far, in order
    runs,           \* tokenizer: the delimited runs the input text is built from
    text,           \* tokenizer: input text
    segments,       \* tokenizer: result; wrapper: input segments
    max_width,      \* wrapper: width limit
    lines,          \* wrapper: result
    line_widths,    \* _render_text_line: current_x - x reached on each line
    element,        \* estimator / renderer: the block
    elem_height,    \* estimator: result of _calculate_element_height
    rendered_y,     \* renderer: y returned by _render_element
    file_content,   \* convert: what f.read() returned
    md_content      \* convert: md_content after the re.sub

vars == <<pc, style, elements, idx, current_y, page_elements, page_num,
          output_paths, runs, text, segments, max_width, lines, line_widths,
          element,
          elem_height, rendered_y, file_content, md_content>>

renderVars == <<elements, idx, current_y, page_elements, page_num, output_paths>>
tokenVars  == <<runs, text>>
wrapVars   == <<max_width, lines, line_widths>>
heightVars == <<element, elem_height, rendered_y>>
convertVars == <<file_content, md_content>>

None == "none"

-----------------------------------------------------------------------------
(* Bounds of the model *)

MaxBlocks == 5      \* longest block list given to render
MaxRuns   == 2      \* most delimited runs in a tokenizer input
MaxSegs   == 2      \* most segments given to the wrapper
MaxDoc    == 5      \* longest file content given to the preprocessing
MaxLines  == 3      \* most lines of a file given to the whole conversion

-----------------------------------------------------------------------------
(* StyleConfig *)

margin_left  == 50
margin_right == 50
margin_top   == 50
margin_bottom == 50
h1_font_size == 52
h2_font_size == 44
h3_font_size == 40
body_font_size == 36
code_font_size == 28
h1_line_spacing == 72
h2_line_spacing == 64
h3_line_spacing == 56
body_line_spacing == 64
code_line_spacing == 50
paragraph_spacing == 40

-----------------------------------------------------------------------------
(* Python string primitives *)

Min(a, b) == IF a <= b THEN a ELSE b

\* t[a:b] for 0 <= a, with the end clipped to len(t)
Slice(t, a, b) ==
    LET hi == Min(b, Len(t))
    IN  IF a >= hi THEN << >> ELSE [k \in 1..(hi - a) |-> t[a + k]]

\* t.find(sub, start): lowest index >= start where sub occurs, else -1
Find(t, sub, start) ==
    LET hits == {k \in start..(Len(t) - Len(sub)) : Slice(t, k, k + Len(sub)) = sub}
    IN  IF hits = {} THEN -1 ELSE CHOOSE k \in hits : \A j \in hits : k <= j

\* sep.join(parts) restricted to the concatenation ''.join
RECURSIVE Concat(_)
Concat(ss) == IF ss = << >> THEN << >> ELSE Head(ss) \o Concat(Tail(ss))

\* t.split('\n')
RECURSIVE SplitLines(_)
SplitLines(t) ==
    LET nl == Find(t, <<"\n">>, 0)
    IN  IF nl = -1 THEN <<t>>
        ELSE <<Slice(t, 0, nl)>> \o SplitLines(Slice(t, nl + 1, Len(t)))

\* str(n) for n >= 0
DigitChars == <<"0", "1", "2", "3", "4", "5", "6", "7", "8", "9">>
RECURSIVE IntToStr(_)
IntToStr(n) ==
    IF n < 10 THEN <<DigitChars[n + 1]>>
    ELSE IntToStr(n \div 10) \o <<DigitChars[(n % 10) + 1]>>

-----------------------------------------------------------------------------
(* _parse_inline_format *)

Seg(type, content) == [type |-> type, content |-> content]

\* the backquote character (written as an apostrophe: the module's lexer
\* does not accept a backquote inside a string)
BACKQUOTE == "'"
NEWLINE == "\n"
SpecialChars == {"*", BACKQUOTE, "_", "="}

\* One delimiter attempt of the while body: the guard on the opening marker
\* and the position of the closing marker (-1 when there is none).
TryPair(t, i, open, minlen) ==
    IF i + minlen <= Len(t) /\ Slice(t, i, i + Len(open)) = open
    THEN Find(t, open, i + Len(open)) ELSE -1

\* A single-character emphasis marker c that is not the start of cc; the
\* closing marker must not start cc either.
TrySingle(t, i, c, guardLen) ==
    IF i + guardLen <= Len(t) /\ t[i + 1] = c /\ Slice(t, i, i + 2) # <<c, c>>
    THEN LET end == Find(t, <<c>>, i + 1)
         IN  IF end # -1 /\ Slice(t, end, end + 2) # <<c, c>> THEN end ELSE -1
    ELSE -1

TryCode(t, i) ==
    IF t[i + 1] = BACKQUOTE THEN Find(t, <<BACKQUOTE>>, i + 1) ELSE -1

Matched(t, i, end, dlen, type) ==
    [i |-> end + dlen,
     emit |-> IF Slice(t, i + dlen, end) # << >>
              THEN <<Seg(type, Slice(t, i + dlen, end))>> ELSE << >>]

\* the for loop that looks for the next special character
NextSpecial(t, i) ==
    LET cands == {p \in (i + 1)..(Len(t) - 1) : t[p + 1] \in SpecialChars}
    IN  IF cands = {} THEN Len(t) ELSE CHOOSE p \in cands : \A q \in cands : p <= q

\* One iteration of the while loop at position i (0-based, i < n): the new
\* position and the segments appended.
ParseStep(t, i) ==
    LET e3  == TryPair(t, i, <<"*", "*", "*">>, 6)
        e2  == TryPair(t, i, <<"*", "*">>, 4)
        e1  == TrySingle(t, i, "*", 2)
        ec  == TryCode(t, i)
        eh  == TryPair(t, i, <<"=", "=">>, 4)
        eu2 == TryPair(t, i, <<"_", "_">>, 4)
        eu1 == TrySingle(t, i, "_", 1)
    IN  IF e3 # -1 THEN Matched(t, i, e3, 3, "bold_italic")
        ELSE IF e2 # -1 THEN Matched(t, i, e2, 2, "bold")
        ELSE IF e1 # -1 THEN Matched(t, i, e1, 1, "italic")
        ELSE IF ec # -1 THEN Matched(t, i, ec, 1, "code")
        ELSE IF eh # -1 THEN Matched(t, i, eh, 2, "highlight")
        ELSE IF eu2 # -1 THEN Matched(t, i, eu2, 2, "bold")
        ELSE IF eu1 # -1 THEN Matched(t, i, eu1, 1, "italic")
        ELSE [i |-> NextSpecial(t, i),
              emit |-> <<Seg("normal", Slice(t, i, NextSpecial(t, i)))>>]

RECURSIVE ParseLoop(_, _, _)
ParseLoop(t, i, segs) ==
    IF i >= Len(t) THEN segs
    ELSE LET st == ParseStep(t, i)
         IN  ParseLoop(t, st.i, segs \o st.emit)

\* the final pass without the merge: empty segments dropped, nothing joined
RECURSIVE MergeNormalNever(_, _)
MergeNormalNever(segs, merged) ==
    IF segs = << >> THEN merged
    ELSE IF Head(segs).content = << >> THEN MergeNormalNever(Tail(segs), merged)
    ELSE MergeNormalNever(Tail(segs), Append(merged, Head(segs)))

\* the merge of consecutive normal segments
RECURSIVE MergeNormal(_, _)
MergeNormal(segs, merged) ==
    IF segs = << >> THEN merged
    ELSE LET seg == Head(segs)
             m   == Len(merged)
         IN  IF seg.content = << >> THEN MergeNormal(Tail(segs), merged)
             ELSE IF m > 0 /\ seg.type = "normal" /\ merged[m].type = "normal"
             THEN MergeNormal(Tail(segs),
                      [merged EXCEPT ![m].content = @ \o seg.content])
             ELSE MergeNormal(Tail(segs), Append(merged, seg))

parse_inline_format(t) ==
    LET merged == MergeNormal(ParseLoop(t, 0, << >>), << >>)
    IN  IF merged # << >> THEN merged ELSE <<Seg("normal", t)>>

-----------------------------------------------------------------------------
(* Fonts and _get_text_size *)

\* the fonts of _load_fonts that layout uses
Fonts == {"h1", "h2", "h3", "body", "bold", "code"}

FontSize(font) ==
    CASE font = "h1"   -> h1_font_size
      [] font = "h2"   -> h2_font_size
      [] font = "h3"   -> h3_font_size
      [] font = "body" -> body_font_size
      [] font = "bold" -> body_font_size
      [] font = "code" -> code_font_size

\* font_bold is a heavier face than font_regular: its glyphs advance a
\* little further at the same size
IsBoldFace(font) == font \in {"h1", "h2", "h3", "bold"}

Em(font) == IF IsBoldFace(font) THEN FontSize(font) + FontSize(font) \div 18
            ELSE FontSize(font)

WideChars == {"W"}

CharWidth(c, font) == IF c \in WideChars THEN Em(font) ELSE Em(font) \div 2

\* width component of _get_text_size(text, font)
RECURSIVE get_text_size(_, _)
get_text_size(t, font) ==
    IF t = << >> THEN 0
    ELSE CharWidth(Head(t), font) + get_text_size(Tail(t), font)

-----------------------------------------------------------------------------
(* _wrap_text *)

\* the for loop over the characters; ls is lines, cur is current_line
RECURSIVE WrapTextLoop(_, _, _, _, _)
WrapTextLoop(t, font, maxw, ls, cur) ==
    IF t = << >> THEN [lines |-> ls, current_line |-> cur]
    ELSE LET char == Head(t)
             test_line == Append(cur, char)
         IN  IF get_text_size(test_line, font) <= maxw
             THEN WrapTextLoop(Tail(t), font, maxw, ls, test_line)
             ELSE WrapTextLoop(Tail(t), font, maxw,
                      IF cur # << >> THEN Append(ls, cur) ELSE ls, <<char>>)

wrap_text(t, font, maxw) ==
    LET r  == WrapTextLoop(t, font, maxw, << >>, << >>)
        ls == IF r.current_line # << >> THEN Append(r.lines, r.current_line)
              ELSE r.lines
    IN  IF ls # << >> THEN ls ELSE IF t # << >> THEN <<t>> ELSE << >>

-----------------------------------------------------------------------------
(* _wrap_formatted_text *)

is_formatted(seg_type) ==
    seg_type \in {"bold", "italic", "bold_italic", "highlight", "code"}

\* the font the wrapper measures a segment with
SegFont(seg_type, font) ==
    IF seg_type = "bold" THEN "bold"
    ELSE IF seg_type = "code" THEN "code"
    ELSE font

\* the font _render_text_line draws a segment with
LineFont(seg_type) ==
    CASE seg_type = "bold"        -> "bold"
      [] seg_type = "italic"      -> "body"
      [] seg_type = "bold_italic" -> "bold"
      [] seg_type = "code"        -> "code"
      [] seg_type = "highlight"   -> "body"
      [] OTHER                    -> "body"

\* current_line with content added: merged into the last segment when it has
\* the same type, else appended as a new segment
AddToLine(cur, seg_type, content) ==
    IF cur # << >> /\ cur[Len(cur)].type = seg_type
    THEN [cur EXCEPT ![Len(cur)].content = @ \o content]
    ELSE Append(cur, Seg(seg_type, content))

\* lines after the "if current_line: lines.append(current_line)" flush
Flush(ls, cur) == IF cur # << >> THEN Append(ls, cur) ELSE ls

\* a fresh line that starts empty
StartLineEmpty(seg_type, content) == << >>

\* the line a flushed segment or character starts
StartLine(seg_type, content) == <<Seg(seg_type, content)>>

\* the whole-segment test without the kind condition
KeepWholeAnyKind(seg_type, seg_width, maxw) == seg_width <= maxw

\* the whole-segment test without the width condition
KeepWholeAnyWidth(seg_type, seg_width, maxw) == is_formatted(seg_type)

\* the test that keeps a formatted segment whole on a fresh line
KeepWhole(seg_type, seg_width, maxw) ==
    is_formatted(seg_type) /\ seg_width <= maxw

\* the character-splitting while loop; w is the record (lines, cur, width)
RECURSIVE SplitChars(_, _, _, _, _)
SplitChars(content, seg_type, seg_font, maxw, w) ==
    IF content = << >> THEN w
    ELSE LET char == Head(content)
             char_width == CharWidth(char, seg_font)
         IN  IF w.width + char_width <= maxw
             THEN SplitChars(Tail(content), seg_type, seg_font, maxw,
                      [lines |-> w.lines,
                       cur   |-> AddToLine(w.cur, seg_type, <<char>>),
                       width |-> w.width + char_width])
             ELSE SplitChars(Tail(content), seg_type, seg_font, maxw,
                      [lines |-> Flush(w.lines, w.cur),
                       cur   |-> StartLine(seg_type, <<char>>),
                       width |-> char_width])

\* the body of "for seg in segments"
WrapSeg(seg, font, maxw, w) ==
    LET seg_font  == SegFont(seg.type, font)
        seg_width == get_text_size(seg.content, seg_font)
    IN  IF w.width + seg_width <= maxw
        THEN [lines |-> w.lines,
              cur   |-> AddToLine(w.cur, seg.type, seg.content),
              width |-> w.width + seg_width]
        ELSE IF KeepWhole(seg.type, seg_width, maxw)
        THEN [lines |-> Flush(w.lines, w.cur),
              cur   |-> StartLine(seg.type, seg.content),
              width |-> seg_width]
        ELSE SplitChars(seg.content, seg.type, seg_font, maxw, w)

RECURSIVE WrapLoop(_, _, _, _)
WrapLoop(segs, font, maxw, w) ==
    IF segs = << >> THEN w
    ELSE WrapLoop(Tail(segs), font, maxw, WrapSeg(Head(segs), font, maxw, w))

wrap_formatted_text(segs, font, maxw) ==
    LET w  == WrapLoop(segs, font, maxw,
                       [lines |-> << >>, cur |-> << >>, width |-> 0])
        ls == Flush(w.lines, w.cur)
    IN  IF ls # << >> THEN ls ELSE << << >> >>

-----------------------------------------------------------------------------
(* Blocks, _calculate_element_height and _render_element *)

\* an element dictionary: 'content' for headings, paragraph, code and quote,
\* 'items' for the two list kinds, neither for hr
Block(type, content, items) == [type |-> type, content |-> content, items |-> items]

\* the fixed part of the code block estimate
CodeEstimatePadding == 40

\* the heading estimate
HeadingEstimate(nlines, line_spacing) == nlines * line_spacing

\* the width the estimator wraps quote and list text at
EstimateIndentWidth(maxw) == maxw - 40

\* the for loop of the 'list' branch of the estimator
RECURSIVE ListEstimate(_, _)
ListEstimate(items, maxw) ==
    IF items = << >> THEN 0
    ELSE Len(wrap_text(Head(items), "body", EstimateIndentWidth(maxw)))
             * body_line_spacing + 10
         + ListEstimate(Tail(items), maxw)

\* f"{i+1}. ": the number put before item i (0-based) of an ordered list
OrderedPrefix(i) == IntToStr(i + 1) \o <<".", " ">>

\* the for loop of the 'ordered_list' branch of the estimator; i is the index
\* enumerate gives the head of items
RECURSIVE OrderedListEstimate(_, _, _)
OrderedListEstimate(items, i, maxw) ==
    IF items = << >> THEN 0
    ELSE LET prefix == OrderedPrefix(i)
         IN  Len(wrap_text(prefix \o Head(items), "body", EstimateIndentWidth(maxw)))
                 * body_line_spacing + 10
             + OrderedListEstimate(Tail(items), i + 1, maxw)

calculate_element_height(el, maxw) ==
    CASE el.type = "h1" ->
            HeadingEstimate(Len(wrap_text(el.content, "h1", maxw)), h1_line_spacing)
      [] el.type = "h2" ->
            HeadingEstimate(Len(wrap_text(el.content, "h2", maxw)), h2_line_spacing)
      [] el.type = "h3" ->
            HeadingEstimate(Len(wrap_text(el.content, "h3", maxw)), h3_line_spacing)
      [] el.type = "paragraph" ->
            Len(wrap_formatted_text(parse_inline_format(el.content), "body", maxw))
                * body_line_spacing + paragraph_spacing
      [] el.type = "code" ->
            Len(SplitLines(el.content)) * code_line_spacing + CodeEstimatePadding
      [] el.type = "quote" ->
            Len(wrap_text(el.content, "body", EstimateIndentWidth(maxw)))
                * body_line_spacing + 30
      [] el.type = "list" -> ListEstimate(el.items, maxw) + 10
      [] el.type = "ordered_list" -> OrderedListEstimate(el.items, 0, maxw) + 10
      [] el.type = "hr" -> 40
      [] OTHER -> 0

\* the bullet character of the list renderer (a half-width stand-in)
BULLET == "#"

\* segments with the bullet or the number put in front
WithPrefix(segs, prefix) ==
    IF segs # << >> /\ segs[1].type = "normal"
    THEN [segs EXCEPT ![1].content = prefix \o @]
    ELSE <<Seg("normal", prefix)>> \o segs

\* the for loop of the 'list' branch of the renderer
RECURSIVE RenderList(_, _, _)
RenderList(items, y, maxw) ==
    IF items = << >> THEN y
    ELSE LET segs == WithPrefix(parse_inline_format(Head(items)), <<BULLET, " ">>)
             ls   == wrap_formatted_text(segs, "body", maxw)
         IN  RenderList(Tail(items), y + Len(ls) * body_line_spacing + 10, maxw)

\* the for loop of the 'ordered_list' branch of the renderer
RECURSIVE RenderOrderedList(_, _, _, _)
RenderOrderedList(items, i, y, maxw) ==
    IF items = << >> THEN y
    ELSE LET prefix == OrderedPrefix(i)
             segs == WithPrefix(parse_inline_format(Head(items)), prefix)
             ls   == wrap_formatted_text(segs, "body", maxw)
         IN  RenderOrderedList(Tail(items), i + 1,
                               y + Len(ls) * body_line_spacing + 10, maxw)

\* the y that _render_element returns for an element drawn at y
render_element(el, y, maxw) ==
    CASE el.type = "h1" ->
            y + Len(wrap_text(el.content, "h1", maxw)) * h1_line_spacing + 20
      [] el.type = "h2" ->
            y + Len(wrap_text(el.content, "h2", maxw)) * h2_line_spacing + 15
      [] el.type = "h3" ->
            y + Len(wrap_text(el.content, "h3", maxw)) * h3_line_spacing + 10
      [] el.type = "paragraph" ->
            y + Len(wrap_formatted_text(parse_inline_format(el.content), "body", maxw))
                    * body_line_spacing + paragraph_spacing
      [] el.type = "code" ->
            LET block_height == Len(SplitLines(el.content)) * code_line_spacing + 30
            IN  y + block_height + 20
      [] el.type = "quote" ->
            LET quote_width == maxw - 30
                ls == wrap_formatted_text(parse_inline_format(el.content), "body",
                                          quote_width - 20)
                quote_height == Len(ls) * body_line_spacing + 20
            IN  y + quote_height + 20
      [] el.type = "list" -> RenderList(el.items, y, maxw) + 10
      [] el.type = "ordered_list" -> RenderOrderedList(el.items, 0, y, maxw) + 10
      [] el.type = "hr" -> y + 40
      [] OTHER -> y

-----------------------------------------------------------------------------
(* ImageRenderer.render and _save_page *)

content_width(st) == st.width - margin_left - margin_right

\* the unused content_height of render taken for the limit
max_content_height_inner(st) == st.height - margin_top - margin_bottom

\* max_content_height = height - safe_bottom_margin
max_content_height(st) == st.height - (margin_bottom + 20)

\* the page break test with >= in place of >
NeedsPageBreakAtLimit(cy, elem_h, st) == cy + elem_h >= max_content_height(st)

\* the page break test of the for loop
NeedsPageBreak(cy, elem_h, st) == cy + elem_h > max_content_height(st)

\* a new page that starts empty, and a new page whose y forgets margin_top
NewPageElementsEmpty(el) == << >>
NewPageYNoMargin(elem_h) == elem_h

\* "page_elements = [element]" and "current_y = margin_top + elem_height"
NewPageElements(el) == <<el>>
NewPageY(elem_h) == margin_top + elem_h

\* the for loop of _save_page: y after the elements are drawn from y
RECURSIVE RenderAll(_, _, _)
RenderAll(els, y, maxw) ==
    IF els = << >> THEN y
    ELSE RenderAll(Tail(els), render_element(Head(els), y, maxw), maxw)

\* what a call of _save_page writes: the page number in the file name, the
\* elements drawn and the y reached below the last one
save_page(els, num, st) ==
    [page_num |-> num, elements |-> els,
     y |-> RenderAll(els, margin_top, content_width(st))]

\* else branch of the loop body: the element joins the accumulator page
RenderAppend ==
    /\ pc = "render"
    /\ idx < Len(elements)
    /\ LET el == elements[idx + 1]
           elem_h == calculate_element_height(el, content_width(style))
       IN  /\ ~NeedsPageBreak(current_y, elem_h, style)
           /\ page_elements' = Append(page_elements, el)
           /\ current_y' = current_y + elem_h
    /\ idx' = idx + 1
    /\ UNCHANGED <<pc, style, elements, page_num, output_paths>>
    /\ UNCHANGED <<tokenVars, segments, wrapVars, heightVars, convertVars>>

\* if branch of the loop body: the accumulator page is saved when it is not
\* empty and a new page starts with the element
RenderBreak ==
    /\ pc = "render"
    /\ idx < Len(elements)
    /\ LET el == elements[idx + 1]
           elem_h == calculate_element_height(el, content_width(style))
       IN  /\ NeedsPageBreak(current_y, elem_h, style)
           /\ IF page_elements # << >>
              THEN /\ output_paths' =
                        Append(output_paths, save_page(page_elements, page_num, style))
                   /\ page_num' = page_num + 1
              ELSE UNCHANGED <<output_paths, page_num>>
           /\ page_elements' = NewPageElements(el)
           /\ current_y' = NewPageY(elem_h)
    /\ idx' = idx + 1
    /\ UNCHANGED <<pc, style, elements>>
    /\ UNCHANGED <<tokenVars, segments, wrapVars, heightVars, convertVars>>

\* after the loop: the last page is saved when it is not empty, and the
\* paths are returned
RenderReturn ==
    /\ pc = "render"
    /\ idx = Len(elements)
    /\ output_paths' = IF page_elements # << >>
                       THEN Append(output_paths,
                                   save_page(page_elements, page_num, style))
                       ELSE output_paths
    /\ pc' = "done"
    /\ UNCHANGED <<style, elements, idx, current_y, page_elements, page_num>>
    /\ UNCHANGED <<tokenVars, segments, wrapVars, heightVars, convertVars>>

-----------------------------------------------------------------------------
(* MarkdownToImage.convert: the newline promotion *)

\* re.sub(r'([^\n])\n([^\n])', r'\1\n\n\2', s): the scan from position p;
\* a match consumes its three characters
RECURSIVE PromoteFrom(_, _)
PromoteFrom(s, p) ==
    IF p >= Len(s) THEN << >>
    ELSE IF /\ p + 3 <= Len(s)
            /\ s[p + 1] # NEWLINE /\ s[p + 2] = NEWLINE /\ s[p + 3] # NEWLINE
    THEN <<s[p + 1], NEWLINE, NEWLINE, s[p + 3]>> \o PromoteFrom(s, p + 3)
    ELSE <<s[p + 1]>> \o PromoteFrom(s, p + 1)

\* the substitution written without the doubling
promote_nothing(s) == s

promote_newlines(s) == PromoteFrom(s, 0)

Preprocess ==
    /\ pc = "convert"
    /\ md_content' = promote_newlines(file_content)
    /\ pc' = "done"
    /\ UNCHANGED <<style, renderVars, tokenVars, segments, wrapVars, heightVars,
                   file_content>>

-----------------------------------------------------------------------------
(* MarkdownParser.parse *)

Whitespace == {" ", "\t"}
Digits == {"0", "1", "2", "3", "4", "5", "6", "7", "8", "9"}

\* s.strip()
RECURSIVE LStrip(_)
LStrip(t) == IF t # << >> /\ Head(t) \in Whitespace THEN LStrip(Tail(t)) ELSE t

RECURSIVE RStrip(_)
RStrip(t) ==
    IF t # << >> /\ t[Len(t)] \in Whitespace THEN RStrip(SubSeq(t, 1, Len(t) - 1))
    ELSE t

Strip(t) == RStrip(LStrip(t))

StartsWith(t, p) == Slice(t, 0, Len(p)) = p

\* sep.join(parts)
RECURSIVE Join(_, _)
Join(parts, sep) ==
    IF parts = << >> THEN << >>
    ELSE IF Len(parts) = 1 THEN parts[1]
    ELSE parts[1] \o sep \o Join(Tail(parts), sep)

Fence == <<BACKQUOTE, BACKQUOTE, BACKQUOTE>>

\* re.match(r'^[\*\-\+]\s', st) and re.match(r'^[\*\-\+]\s(.+)', st)
ListStart(st) == Len(st) >= 2 /\ st[1] \in {"*", "-", "+"} /\ st[2] \in Whitespace
ListMatch(st) == ListStart(st) /\ Len(st) >= 3
ListItem(st)  == Slice(st, 2, Len(st))

\* number of leading digits
RECURSIVE LeadingDigits(_)
LeadingDigits(st) ==
    IF st # << >> /\ Head(st) \in Digits THEN 1 + LeadingDigits(Tail(st)) ELSE 0

\* re.match(r'^\d+\.\s', st) and re.match(r'^\d+\.\s(.+)', st)
OrderedStart(st) ==
    LET n == LeadingDigits(st)
    IN  n >= 1 /\ Len(st) >= n + 2 /\ st[n + 1] = "." /\ st[n + 2] \in Whitespace
OrderedMatch(st) == OrderedStart(st) /\ Len(st) >= LeadingDigits(st) + 3
OrderedItem(st)  == Slice(st, LeadingDigits(st) + 2, Len(st))

IsRule(st) == st \in {<<"-", "-", "-">>, <<"*", "*", "*">>, <<"_", "_", "_">>}

\* where an inner while loop ends: the first of the indices its condition
\* fails at, or len(lines)
FirstStop(stops, n) ==
    IF stops = {} THEN n ELSE CHOOSE j \in stops : \A q \in stops : j <= q

InQuote(line)   == StartsWith(Strip(line), <<">">>)
InList(line)    == ListMatch(Strip(line))
InOrdered(line) == OrderedMatch(Strip(line))
InPara(line)    == Strip(line) # << >>
InCode(line)    == ~StartsWith(Strip(line), Fence)

QuoteLine(line)   == Strip(Tail(Strip(line)))
ListLine(line)    == ListItem(Strip(line))
OrderedLine(line) == OrderedItem(Strip(line))

\* the index (0-based) each inner while loop started at line i leaves i at
CodeEnd(ls, i)    == FirstStop({j \in i..(Len(ls) - 1) : ~InCode(ls[j + 1])}, Len(ls))
QuoteEnd(ls, i)   == FirstStop({j \in i..(Len(ls) - 1) : ~InQuote(ls[j + 1])}, Len(ls))
ListEnd(ls, i)    == FirstStop({j \in i..(Len(ls) - 1) : ~InList(ls[j + 1])}, Len(ls))
OrderedEnd(ls, i) == FirstStop({j \in i..(Len(ls) - 1) : ~InOrdered(ls[j + 1])}, Len(ls))
ParaEnd(ls, i)    == FirstStop({j \in i..(Len(ls) - 1) : ~InPara(ls[j + 1])}, Len(ls))

\* what each loop collected from lines[i:j]
raw_lines(ls, i, j)     == [k \in 1..(j - i) |-> ls[i + k]]
quote_lines(ls, i, j)   == [k \in 1..(j - i) |-> QuoteLine(ls[i + k])]
list_items(ls, i, j)    == [k \in 1..(j - i) |-> ListLine(ls[i + k])]
ordered_items(ls, i, j) == [k \in 1..(j - i) |-> OrderedLine(ls[i + k])]

\* one iteration of the outer while loop at line i (0-based): the index to go
\* on from and the elements appended
ParseLine(ls, i) ==
    LET stripped == Strip(ls[i + 1])
    IN  IF stripped = << >> THEN [i |-> i + 1, emit |-> << >>]
        ELSE IF StartsWith(stripped, <<"#", " ">>)
        THEN [i |-> i + 1,
              emit |-> <<Block("h1", Slice(stripped, 2, Len(stripped)), << >>)>>]
        ELSE IF StartsWith(stripped, <<"#", "#", " ">>)
        THEN [i |-> i + 1,
              emit |-> <<Block("h2", Slice(stripped, 3, Len(stripped)), << >>)>>]
        ELSE IF StartsWith(stripped, <<"#", "#", "#", " ">>)
        THEN [i |-> i + 1,
              emit |-> <<Block("h3", Slice(stripped, 4, Len(stripped)), << >>)>>]
        ELSE IF StartsWith(stripped, Fence)
        THEN LET j == CodeEnd(ls, i + 1)
             IN  [i |-> j + 1,
                  emit |-> <<Block("code", Join(raw_lines(ls, i + 1, j), <<NEWLINE>>),
                                   << >>)>>]
        ELSE IF StartsWith(stripped, <<">">>)
        THEN LET j == QuoteEnd(ls, i)
             IN  [i |-> j,
                  emit |-> <<Block("quote", Join(quote_lines(ls, i, j), <<NEWLINE>>),
                                   << >>)>>]
        ELSE IF ListStart(stripped)
        THEN LET j == ListEnd(ls, i)
             IN  [i |-> j, emit |-> <<Block("list", << >>, list_items(ls, i, j))>>]
        ELSE IF OrderedStart(stripped)
        THEN LET j == OrderedEnd(ls, i)
             IN  [i |-> j,
                  emit |-> <<Block("ordered_list", << >>, ordered_items(ls, i, j))>>]
        ELSE IF IsRule(stripped)
        THEN [i |-> i + 1, emit |-> <<Block("hr", << >>, << >>)>>]
        ELSE LET j == ParaEnd(ls, i)
             IN  [i |-> j,
                  emit |-> <<Block("paragraph", Join(raw_lines(ls, i, j), <<" ">>),
                                   << >>)>>]

RECURSIVE ParseLines(_, _, _)
ParseLines(ls, i, elems) ==
    IF i >= Len(ls) THEN elems
    ELSE LET st == ParseLine(ls, i)
         IN  ParseLines(ls, st.i, elems \o st.emit)

parse(content) == ParseLines(SplitLines(content), 0, << >>)

\* elements = self.parser.parse(md_content)
ParseContent ==
    /\ pc = "done"
    /\ elements' = parse(md_content)
    /\ pc' = "parsed"
    /\ UNCHANGED <<style, idx, current_y, page_elements, page_num, output_paths,
                   tokenVars, segments, wrapVars, heightVars, convertVars>>

-----------------------------------------------------------------------------
(* The pure functions applied to their inputs *)

Tokenize ==
    /\ pc = "tokenize"
    /\ segments' = parse_inline_format(text)
    /\ pc' = "done"
    /\ UNCHANGED <<style, renderVars, tokenVars, wrapVars, heightVars, convertVars>>

\* every caller wraps with font_body
WrapFormatted ==
    /\ pc = "wrap"
    /\ lines' = wrap_formatted_text(segments, "body", max_width)
    /\ pc' = "done"
    /\ UNCHANGED <<style, renderVars, tokenVars, segments, max_width, line_widths,
                   heightVars, convertVars>>

\* the for loop of _render_text_line over the segments of one line: the
\* advance of current_x
RECURSIVE render_text_line(_)
render_text_line(line) ==
    IF line = << >> THEN 0
    ELSE get_text_size(Head(line).content, LineFont(Head(line).type))
         + render_text_line(Tail(line))

\* the renderer draws the wrapped lines one by one
DrawLines ==
    /\ pc = "done"
    /\ line_widths' = [k \in 1..Len(lines) |-> render_text_line(lines[k])]
    /\ pc' = "drawn"
    /\ UNCHANGED <<style, renderVars, tokenVars, segments, max_width, lines,
                   heightVars, convertVars>>

Estimate ==
    /\ pc = "estimate"
    /\ elem_height' = calculate_element_height(element, content_width(style))
    /\ pc' = "draw"
    /\ UNCHANGED <<style, renderVars, tokenVars, segments, wrapVars, element,
                   rendered_y, convertVars>>

\* _save_page draws the first element of a page at y = margin_top
Draw ==
    /\ pc = "draw"
    /\ rendered_y' = render_element(element, margin_top, content_width(style))
    /\ pc' = "done"
    /\ UNCHANGED <<style, renderVars, tokenVars, segments, wrapVars, element,
                   elem_height, convertVars>>

-----------------------------------------------------------------------------
(* Inputs *)

SeqsUpTo(S, n) == UNION {[1..k -> S] : k \in 0..n}

\* --width and --height of the command line
RenderStyles == [width : {172, 900}, height : {200, 300, 400}]
HeightStyles == [width : {172, 208, 900}, height : {1600}]
DefaultStyle == [width |-> 900, height |-> 1600]

Hr == Block("hr", << >>, << >>)

\* the blocks render is given
BlockPool ==
    { Hr,
      Block("h1", <<"a">>, << >>),
      Block("paragraph", <<"W", "W", "W">>, << >>),
      Block("code", <<"a", NEWLINE, "a", NEWLINE, "a">>, << >>) }

\* inline text of the blocks the estimator and the renderer are compared on
InlineTexts ==
    { <<"a">>, <<"W", "a">>, <<"W", "W", "W">>, <<"*", "W", "*">>,
      <<"W", "W", "W", "W", "a">> }

\* a code block of n lines, each the one character "a"
RECURSIVE CodeLines(_)
CodeLines(n) == IF n = 1 THEN <<"a">> ELSE CodeLines(n - 1) \o <<NEWLINE, "a">>

CodeTexts == {CodeLines(1), CodeLines(2), CodeLines(50)}

HeightBlocks ==
    {Block(t, c, << >>) : t \in {"h1", "h2", "h3", "paragraph", "quote"},
                          c \in InlineTexts}
    \cup {Block("code", c, << >>) : c \in CodeTexts}
    \cup {Block(t, it, << >>) : t \in {"list", "ordered_list"},
                                it \in SeqsUpTo({<<"a">>, <<"W", "W", "W">>}, 2) \ {<< >>}}
    \cup {Hr}

\* a delimited run: the marker that opens and closes it and its content
RunKinds ==
    { [type |-> "normal",      mark |-> << >>],
      [type |-> "bold_italic", mark |-> <<"*", "*", "*">>],
      [type |-> "bold",        mark |-> <<"*", "*">>],
      [type |-> "bold",        mark |-> <<"_", "_">>],
      [type |-> "italic",      mark |-> <<"*">>],
      [type |-> "italic",      mark |-> <<"_">>],
      [type |-> "code",        mark |-> <<BACKQUOTE>>],
      [type |-> "highlight",   mark |-> <<"=", "=">>] }

RunTexts == {<<"a">>, <<"a", "b">>}

Runs == {[type |-> k.type, mark |-> k.mark, content |-> c] : k \in RunKinds, c \in RunTexts}

\* the text a run sequence is written as, and the text without the markers
RECURSIVE Assemble(_)
Assemble(rs) ==
    IF rs = << >> THEN << >>
    ELSE Head(rs).mark \o Head(rs).content \o Head(rs).mark \o Assemble(Tail(rs))

RECURSIVE Stripped(_)
Stripped(rs) ==
    IF rs = << >> THEN << >> ELSE Head(rs).content \o Stripped(Tail(rs))

SegTypes == {"normal", "bold", "italic", "bold_italic", "code", "highlight"}
\* the empty content is the fallback segment the tokenizer returns for ""
SegTexts == {<< >>, <<"a">>, <<"W">>, <<"a", "W">>, <<"W", "W", "a">>}
WrapSegments == {Seg(t, c) : t \in SegTypes, c \in SegTexts}
WrapWidths == {0, 10, 36, 60, 80}

DocChars == {"a", "b", NEWLINE}

-----------------------------------------------------------------------------
(* Specifications *)

IdleRender ==
    /\ elements = << >> /\ idx = 0 /\ current_y = margin_top
    /\ page_elements = << >> /\ page_num = 1 /\ output_paths = << >>
IdleToken   == runs = << >> /\ text = << >>
IdleWrap    == max_width = 0 /\ lines = None /\ line_widths = None
IdleHeight  == element = None /\ elem_height = None /\ rendered_y = None
IdleConvert == file_content = << >> /\ md_content = None

\* render(elements, ...) on a fresh renderer
Init ==
    /\ pc = "render"
    /\ style \in RenderStyles
    /\ elements \in SeqsUpTo(BlockPool, MaxBlocks)
    /\ idx = 0
    /\ current_y = margin_top
    /\ page_elements = << >>
    /\ page_num = 1
    /\ output_paths = << >>
    /\ segments = None
    /\ IdleToken /\ IdleWrap /\ IdleHeight /\ IdleConvert

Next == RenderAppend \/ RenderBreak \/ RenderReturn

Spec == Init /\ [][Next]_vars

\* _parse_inline_format(text)
InitTokenize ==
    /\ pc = "tokenize"
    /\ style = DefaultStyle
    /\ runs \in SeqsUpTo(Runs, MaxRuns)
    /\ text = Assemble(runs)
    /\ segments = None
    /\ IdleRender /\ IdleWrap /\ IdleHeight /\ IdleConvert

NextTokenize == Tokenize

SpecTokenize == InitTokenize /\ [][NextTokenize]_vars

\* _wrap_formatted_text(segments, font_body, max_width)
InitWrap ==
    /\ pc = "wrap"
    /\ style = DefaultStyle
    /\ segments \in SeqsUpTo(WrapSegments, MaxSegs)
    /\ max_width \in WrapWidths
    /\ lines = None
    /\ line_widths = None
    /\ IdleRender /\ IdleToken /\ IdleHeight /\ IdleConvert

NextWrap == WrapFormatted \/ DrawLines

SpecWrap == InitWrap /\ [][NextWrap]_vars

\* _calculate_element_height and _render_element on the same element
InitHeight ==
    /\ pc = "estimate"
    /\ style \in HeightStyles
    /\ element \in HeightBlocks
    /\ elem_height = None
    /\ rendered_y = None
    /\ segments = None
    /\ IdleRender /\ IdleToken /\ IdleWrap /\ IdleConvert

NextHeight == Estimate \/ Draw

SpecHeight == InitHeight /\ [][NextHeight]_vars

\* the re.sub of convert on the content of the file
InitConvert ==
    /\ pc = "convert"
    /\ style = DefaultStyle
    /\ file_content \in SeqsUpTo(DocChars, MaxDoc)
    /\ md_content = None
    /\ segments = None
    /\ IdleRender /\ IdleToken /\ IdleWrap /\ IdleHeight

NextConvert == Preprocess

SpecConvert == InitConvert /\ [][NextConvert]_vars

-----------------------------------------------------------------------------
(* Properties of render *)

\* the block lists of the saved pages, in emission order
PageLists == [k \in 1..Len(output_paths) |-> output_paths[k].elements]

\* sum of the estimated heights of a block list at the content width
RECURSIVE SumHeights(_, _)
SumHeights(els, st) ==
    IF els = << >> THEN 0
    ELSE calculate_element_height(Head(els), content_width(st))
         + SumHeights(Tail(els), st)

\* usable height of a page as the specification words it
UsableHeight(st) == st.height - margin_bottom - 20

FitsOnePage(els, st) == margin_top + SumHeights(els, st) <= UsableHeight(st)

CeilDiv(a, b) == (a + b - 1) \div b

\* C1: the pages emitted so far followed by the accumulator page are exactly
\* the blocks processed so far, in input order, and when render returns the
\* concatenation of the emitted pages is exactly the input block list: no
\* block is dropped, duplicated or moved; pages are numbered in emission order.
C1_PagesConcatToInput ==
    /\ Concat(PageLists) \o (IF pc = "done" THEN << >> ELSE page_elements)
           = SubSeq(elements, 1, idx)
    /\ pc = "done" => Concat(PageLists) = elements
    /\ \A k \in 1..Len(output_paths) : output_paths[k].page_num = k

C1_Witness ==
    /\ pc = "done"
    /\ Len(output_paths) >= 3
    /\ \E k \in 1..Len(output_paths) : Len(output_paths[k].elements) >= 2
    /\ Concat(PageLists) = elements

\* C2: render on no blocks saves no page; render on blocks that all fit on
\* one page saves exactly one page holding all of them in order; no saved
\* page is ever empty.
C2_PaginationTotality ==
    /\ \A k \in 1..Len(output_paths) : output_paths[k].elements # << >>
    /\ pc = "done" /\ elements = << >> => output_paths = << >>
    /\ pc = "done" /\ elements # << >> /\ FitsOnePage(elements, style)
           => PageLists = <<elements>>

C2_Witness ==
    /\ pc = "done"
    /\ Len(elements) >= 2
    /\ margin_top + SumHeights(elements, style) = UsableHeight(style)
    /\ PageLists = <<elements>>

\* estimated height of the first block
FirstHeight(els, st) == calculate_element_height(els[1], content_width(st))

\* all blocks have the same estimated height h
UniformHeight(els, st, h) ==
    \A k \in 1..Len(els) : calculate_element_height(els[k], content_width(st)) = h

\* h is small relative to the page height: at most a quarter of it
SmallBlock(st, h) == h > 0 /\ 4 * h <= st.height

\* C3 as stated: a document of uniformly small blocks whose total estimated
\* height exceeds the usable height is split into exactly
\* ceil(total_height / usable_height) pages.
C3_CeilOfTotalOverUsable ==
    pc = "done" /\ elements # << >> =>
        LET h == FirstHeight(elements, style)
        IN  /\ UniformHeight(elements, style, h)
            /\ SmallBlock(style, h)
            /\ Len(elements) * h > UsableHeight(style)
            => Len(output_paths) = CeilDiv(Len(elements) * h, UsableHeight(style))

\* C3 amended: n blocks of the same estimated height h, with
\* 0 < h <= usable_height - margin_top, whose total exceeds the usable height
\* are split into exactly ceil(n / floor((usable_height - margin_top) / h))
\* pages.
C3_CeilOfBlocksPerPage ==
    pc = "done" /\ elements # << >> =>
        LET h == FirstHeight(elements, style)
        IN  /\ UniformHeight(elements, style, h)
            /\ h > 0 /\ h <= UsableHeight(style) - margin_top
            /\ Len(elements) * h > UsableHeight(style)
            => Len(output_paths)
                   = CeilDiv(Len(elements), (UsableHeight(style) - margin_top) \div h)

C3_Witness ==
    /\ pc = "done"
    /\ Len(elements) = 5
    /\ UniformHeight(elements, style, 40)
    /\ SumHeights(elements, style) > UsableHeight(style)
    /\ Len(output_paths) = 3
    /\ CeilDiv(SumHeights(elements, style), UsableHeight(style)) = 2

\* C10: current_y is margin_top plus the estimated heights of the blocks on
\* the accumulator page, and every saved page either fits the usable height
\* or holds exactly one block.
C10_PageCapacity ==
    /\ pc = "render" => current_y = margin_top + SumHeights(page_elements, style)
    /\ \A k \in 1..Len(output_paths) :
           \/ FitsOnePage(output_paths[k].elements, style)
           \/ Len(output_paths[k].elements) = 1

C10_Witness ==
    /\ pc = "done"
    /\ \E k \in 1..Len(output_paths) :
           /\ Len(output_paths[k].elements) = 1
           /\ ~FitsOnePage(output_paths[k].elements, style)
    /\ \E k \in 1..Len(output_paths) :
           /\ Len(output_paths[k].elements) >= 2
           /\ FitsOnePage(output_paths[k].elements, style)

-----------------------------------------------------------------------------
(* Properties of the estimator and the renderer *)

\* C4: for every block kind the estimated height equals the vertical advance
\* of _render_element on the same block at the same content width.
C4_EstimateEqualsAdvance ==
    pc = "done" => elem_height = rendered_y - margin_top

\* C5: the estimated height of a code block of n raw lines is
\* n * code_line_spacing + 30 + 20.
C5_CodeEstimate ==
    pc \in {"draw", "done"} /\ element.type = "code"
        => elem_height = Len(SplitLines(element.content)) * code_line_spacing + 30 + 20

-----------------------------------------------------------------------------
(* Properties of the tokenizer *)

\* the contents of a segment list, concatenated in order
SegText(segs) == Concat([k \in 1..Len(segs) |-> segs[k].content])

\* C6: for a text written as balanced delimited runs, the span contents
\* concatenated in order are the text with the markers stripped.
C6_TokenizerRoundTrip ==
    pc = "done" => SegText(segments) = Stripped(runs)

-----------------------------------------------------------------------------
(* Properties of the wrapper *)

\* the (type, character) pairs of a segment list, in order
RECURSIVE SegChars(_)
SegChars(segs) ==
    IF segs = << >> THEN << >>
    ELSE [k \in 1..Len(Head(segs).content) |->
             <<Head(segs).type, Head(segs).content[k]>>] \o SegChars(Tail(segs))

\* the (type, character) pairs of all lines, in order
RECURSIVE LineChars(_)
LineChars(ls) ==
    IF ls = << >> THEN << >> ELSE SegChars(Head(ls)) \o LineChars(Tail(ls))

\* sum of the widths of the segments of a line, each in the wrapper's font
RECURSIVE LineWidth(_)
LineWidth(line) ==
    IF line = << >> THEN 0
    ELSE get_text_size(Head(line).content, SegFont(Head(line).type, "body"))
         + LineWidth(Tail(line))

\* a line of exactly one character that is wider than the limit
SingleWideChar(line, maxw) ==
    /\ Len(line) = 1
    /\ Len(line[1].content) = 1
    /\ LineWidth(line) > maxw

\* C7: every line is within max_width, except a line that is exactly one
\* character which is itself wider than max_width.
C7_WidthBound ==
    pc = "done" =>
        \A k \in 1..Len(lines) :
            LineWidth(lines[k]) <= max_width \/ SingleWideChar(lines[k], max_width)

C7_Witness ==
    /\ pc = "done"
    /\ Len(segments) = 2
    /\ get_text_size(segments[2].content, SegFont(segments[2].type, "body")) > max_width
    /\ Len(segments[2].content) >= 2
    /\ \E k \in 1..Len(lines) : SingleWideChar(lines[k], max_width)
    /\ \E k \in 1..Len(lines) : LineWidth(lines[k]) <= max_width /\ lines[k] # << >>

\* C8: the characters of all lines, in order and with their kinds, are the
\* characters of the input segments: none lost, duplicated, reordered or
\* moved to another kind.
C8_Conservation ==
    pc = "done" => LineChars(lines) = SegChars(segments)

C8_Witness ==
    /\ pc = "done"
    /\ Len(lines) >= 3
    /\ \E k \in 1..Len(lines) : Len(lines[k]) = 2
    /\ LineChars(lines) = SegChars(segments)

-----------------------------------------------------------------------------
(* Properties of the newline promotion *)

\* position p (1-based) of s holds a single newline between two non-blank
\* lines
SingleNewline(s, p) ==
    /\ s[p] = NEWLINE
    /\ p > 1 /\ s[p - 1] # NEWLINE
    /\ p < Len(s) /\ s[p + 1] # NEWLINE

\* s with every single newline doubled and everything else kept
RECURSIVE Promoted(_, _)
Promoted(s, p) ==
    IF p > Len(s) THEN << >>
    ELSE (IF SingleNewline(s, p) THEN <<NEWLINE, NEWLINE>> ELSE <<s[p]>>)
         \o Promoted(s, p + 1)

\* C9: the preprocessing doubles every single newline between two non-blank
\* lines and leaves every run of two or more newlines unchanged.
C9_EverySingleNewlinePromoted ==
    pc = "done" => md_content = Promoted(file_content, 1)

-----------------------------------------------------------------------------
(* Properties of the tokenizer's merge *)

\* C11 as stated: in the result of _parse_inline_format no two consecutive
\* spans share a kind, whatever the kind.
C11_NoAdjacentSameKind ==
    pc = "done" =>
        \A k \in 1..(Len(segments) - 1) : segments[k].type # segments[k + 1].type

\* C11 amended: adjacent normal spans are merged, so no two consecutive spans
\* are both normal.
C11_NoAdjacentNormal ==
    pc = "done" =>
        \A k \in 1..(Len(segments) - 1) :
            ~(segments[k].type = "normal" /\ segments[k + 1].type = "normal")

\* the loop emitted two normal segments in a row and the result holds them
\* as one span
C11_Witness ==
    /\ pc = "done"
    /\ LET raw == ParseLoop(text, 0, << >>)
       IN  /\ \E k \in 1..(Len(raw) - 1) :
                  raw[k].type = "normal" /\ raw[k + 1].type = "normal"
           /\ Len(segments) < Len(raw)
    /\ \A k \in 1..(Len(segments) - 1) :
           ~(segments[k].type = "normal" /\ segments[k + 1].type = "normal")

-----------------------------------------------------------------------------
(* The tokenizer on texts with empty delimiter pairs *)

\* an opening marker directly followed by its closing marker
EmptyPairs == {[type |-> k.type, mark |-> k.mark, content |-> << >>] :
                  k \in {r \in RunKinds : r.mark # << >>}}

\* plain runs: no marker, no special character
PlainRuns == {r \in Runs : r.mark = << >>}

\* _parse_inline_format(text) on plain text mixed with empty pairs
InitTokenizeEmpty ==
    /\ pc = "tokenize"
    /\ style = DefaultStyle
    /\ runs \in SeqsUpTo(PlainRuns \cup EmptyPairs, MaxRuns)
    /\ text = Assemble(runs)
    /\ segments = None
    /\ IdleRender /\ IdleWrap /\ IdleHeight /\ IdleConvert

SpecTokenizeEmpty == InitTokenizeEmpty /\ [][NextTokenize]_vars

HasEmptyPair(rs) == \E k \in 1..Len(rs) : rs[k].mark # << >> /\ rs[k].content = << >>

\* C12: for a text with an empty delimiter pair, the pair gives no span and
\* its marker characters appear in no span, also when the text is nothing
\* but the pair; every span returned has non-empty text.
C12_EmptyPairDropped ==
    pc = "done" /\ HasEmptyPair(runs) =>
        /\ \A k \in 1..Len(segments) : segments[k].content # << >>
        /\ \A k \in 1..Len(segments) :
               \A j \in 1..Len(segments[k].content) :
                   segments[k].content[j] \notin SpecialChars

-----------------------------------------------------------------------------
(* Properties of the wrapper's treatment of a span that does not fit *)

\* the wrapper's (lines, current line, width) after the first k segments
WrapStateAfter(k) ==
    WrapLoop(SubSeq(segments, 1, k), "body", max_width,
             [lines |-> << >>, cur |-> << >>, width |-> 0])

\* the lines of a wrapper state, the open line last
AllLines(w) == w.lines \o (IF w.cur # << >> THEN <<w.cur>> ELSE << >>)

SegWidth(seg) == get_text_size(seg.content, SegFont(seg.type, "body"))

\* segment k does not fit in what is left of the line open before it
DoesNotFit(k) == WrapStateAfter(k - 1).width + SegWidth(segments[k]) > max_width

\* segment k went whole to the start of a new line after the open line was
\* flushed
WholeOnNewLine(k) ==
    /\ WrapStateAfter(k).lines
           = Append(WrapStateAfter(k - 1).lines, WrapStateAfter(k - 1).cur)
    /\ WrapStateAfter(k).cur = <<segments[k]>>

IsPrefix(p, q) == Len(p) <= Len(q) /\ SubSeq(q, 1, Len(p)) = p

\* segment k was split by characters: its first character went on the open
\* line when it fits there, else the open line was flushed and the character
\* starts the next line
SplitByChars(k) ==
    LET b  == WrapStateAfter(k - 1)
        ls == AllLines(WrapStateAfter(k))
        c1 == <<segments[k].type, segments[k].content[1]>>
        n  == Len(b.lines)
    IN  segments[k].content # << >> =>
            IF b.width + CharWidth(c1[2], SegFont(c1[1], "body")) <= max_width
            THEN IsPrefix(SegChars(b.cur) \o <<c1>>, SegChars(ls[n + 1]))
            ELSE IF b.cur # << >>
            THEN ls[n + 1] = b.cur /\ IsPrefix(<<c1>>, SegChars(ls[n + 2]))
            ELSE IsPrefix(<<c1>>, SegChars(ls[n + 1]))

\* C13 as stated: a span of any kind (its text non-empty) that does not fit
\* in the rest of the line but is no wider than max_width goes whole to a
\* new line.
C13_AnySpanKeptWhole ==
    pc = "done" =>
        \A k \in 1..Len(segments) :
            /\ segments[k].content # << >>
            /\ DoesNotFit(k)
            /\ SegWidth(segments[k]) <= max_width
            => WholeOnNewLine(k)

\* C13 amended: a formatted span (bold, italic, bold_italic, highlight, code)
\* that does not fit but is no wider than max_width goes whole to a new line;
\* a normal span that does not fit, and a formatted span wider than
\* max_width, is split by characters.
C13_FormattedSpanKeptWhole ==
    pc = "done" =>
        \A k \in 1..Len(segments) :
            DoesNotFit(k) =>
                IF segments[k].type # "normal" /\ SegWidth(segments[k]) <= max_width
                THEN WholeOnNewLine(k)
                ELSE SplitByChars(k)

C13_Witness ==
    /\ pc = "done"
    /\ Len(segments) = 2
    /\ segments[2].type = "highlight"
    /\ Len(segments[2].content) >= 2
    /\ DoesNotFit(2)
    /\ SegWidth(segments[2]) <= max_width
    /\ lines = <<<<segments[1]>>, <<segments[2]>>>>

-----------------------------------------------------------------------------
(* Properties of the fonts used to measure and to draw *)

\* C14: every span is drawn with the font it was measured with when wrapped,
\* so each line advances, when drawn, by the width the wrapper accounted for.
C14_DrawnWidthIsWrappedWidth ==
    pc = "drawn" =>
        \A k \in 1..Len(lines) : line_widths[k] = LineWidth(lines[k])

-----------------------------------------------------------------------------
(* Properties of the rendered pages *)

\* C15: on every saved page of two or more blocks the y reached after the
\* last block is drawn is within height - margin_bottom.
C15_RenderedWithinBottomMargin ==
    \A k \in 1..Len(output_paths) :
        Len(output_paths[k].elements) >= 2
            => output_paths[k].y <= style.height - margin_bottom

-----------------------------------------------------------------------------
(* convert: the newline promotion followed by MarkdownParser.parse *)

\* source lines of the file: list items, numbered items, plain lines of two
\* characters and of one, a blank line, a heading and a fence
LinePool ==
    { <<"-", " ", "a">>, <<"1", ".", " ", "a">>, <<"2", ".", " ", "b">>,
      <<"a", "b">>, <<"c">>, <<" ", " ">>, <<"#", " ", "a">>, Fence }

\* a source line followed by one or two newlines
LineEnds == {<<NEWLINE>>, <<NEWLINE, NEWLINE>>}
FileLines == {l \o e : l \in LinePool, e \in LineEnds}

InitPipeline ==
    /\ pc = "convert"
    /\ style = DefaultStyle
    /\ file_content \in {Concat(ls) : ls \in SeqsUpTo(FileLines, MaxLines)}
    /\ md_content = None
    /\ segments = None
    /\ IdleRender /\ IdleToken /\ IdleWrap /\ IdleHeight

NextPipeline == Preprocess \/ ParseContent

SpecPipeline == InitPipeline /\ [][NextPipeline]_vars

SourceLines ==
    LET ls == SplitLines(file_content)
    IN  {ls[k] : k \in 1..Len(ls)}

\* every non-blank line of the file has at least two characters
LinesAtLeastTwo == \A l \in SourceLines : Strip(l) # << >> => Len(l) >= 2

\* the numbers the renderer puts before the items of an ordered list
Prefixes(e) == {OrderedPrefix(i) : i \in 0..(Len(e.items) - 1)}

\* C16: when every non-blank line of the file has at least two characters,
\* the blocks parsed from the promoted content have one item per list and per
\* ordered list, every paragraph is one line of the file, and every ordered
\* item is numbered "1. "
C16_OneLinePerBlock ==
    (pc = "parsed" /\ LinesAtLeastTwo) =>
        \A k \in 1..Len(elements) :
            LET e == elements[k]
            IN  /\ e.type \in {"list", "ordered_list"} => Len(e.items) = 1
                /\ e.type = "paragraph" => e.content \in SourceLines
                /\ e.type = "ordered_list" => Prefixes(e) = {<<"1", ".", " ">>}

\* two numbered lines one newline apart, parsed as two one-item lists
C16_Witness ==
    /\ pc = "parsed"
    /\ LinesAtLeastTwo
    /\ file_content = <<"1", ".", " ", "a", NEWLINE, "2", ".", " ", "b", NEWLINE>>
    /\ elements = << Block("ordered_list", << >>, << <<"a">> >>),
                     Block("ordered_list", << >>, << <<"b">> >>) >>

=============================================================================
